---- MODULE Spec2Model ----
(***************************************************************************)
(* Ranking aggregation and canonicalization pipeline.                      *)
(*                                                                         *)
(*   4.merge_and_sort_...py   Score Aggregator     (specification SpecAgg) *)
(*   9_exluding_doublets.py   identifier extractor (specification SpecExt) *)
(*   6.ranking_batch1.2.py    Rank Join            (specification SpecJoin)*)
(*   9_exluding_doublets.py   Duplicate Resolution (specification SpecDup) *)
(*                                                                         *)
(* The stages are separate batch programs that communicate through the     *)
(* file system only, so each has a specification of its own over the       *)
(* variables it reads and writes; the other variables stay at their idle   *)
(* values.                                                                 *)
(***************************************************************************)
EXTENDS Integers, Sequences, FiniteSets, TLC

VARIABLES
    (* Score Aggregator *)
    stats,        \* stats/<subfolder>/<file>.csv : the rows of each score table
    hasPTM,       \* the tables have an Average_i_pTM column
    hasPAE,       \* the tables have an Average_i_pAE column
    noDesign,     \* the score tables, as <<subfolder, file>>, without a Design column
    subdirOrder,  \* the order in which os.listdir returned the subfolders
    mergedSub,    \* stats/merged_<subfolder>_stats.csv of each subfolder
    masterCsv,    \* stats/merged_all_final_design_stats.csv
    rankCol,      \* the rank column added when a merged table is read back
    aggPc,        \* position of the aggregator / reader
    (* identifier extraction and resolution *)
    designCol,    \* the Design column of the master table, row by row
    fileName,     \* a candidate file name
    coreTrail,    \* extract_core_identifier_with_ag1_fallback applied 1, 2, .. times
    idTrail,      \* extract_identifier applied 1, 2, .. times
    resolved,     \* what find_best_and_worst_ranked_files resolves fileName to
    (* Duplicate Resolution *)
    pooled,       \* selection/<cutoff>/ : whether it exists, its *.pdb files in glob order
    outDirs,      \* its unique/ and not_unique_basefold/ subdirectories
    dupRuns,      \* how many times process_duplicates has run
    arrived,      \* the files that arrived in the directory since the last run
    lastRun,      \* the last run: the outputs and new files it started from, whether it raised
    unreadable,   \* the candidate files shutil.copy2 cannot read
    (* Rank Join *)
    joinTables,   \* the Design columns of the master table and of the per-subfolder tables,
                  \* and the source_subfolder column of the master table
    candidates,   \* the .pdb files of the structure-file tree: directory and name
    podium,       \* the files of the podium subdirectory of each directory
    podiumAtStart, \* what the podium directories held before the first run
    joinRuns,     \* how many times copy_files_with_rankings has run
    joinReport,   \* how the last run ended: exit status and the counters of its summary
    (* names of the per-subfolder tables *)
    subNames,     \* the names of the subfolders of stats/
    written,      \* the merged tables in stats/: file name to what the file holds
    recovered,    \* individual_rankings: key to the subfolders whose rows it holds
    namePc,       \* position: the tables are written, then their names are read
    (* selection pooling *)
    selection,    \* the directories below ./selection: path to the files it holds
    pipePc,       \* the script of the pipeline that runs next
    poolRuns,     \* how many times pool_pdb_files has run
    treeBefore    \* the directories below ./selection before its last run

aggVars == <<stats, hasPTM, hasPAE, noDesign, subdirOrder, mergedSub, masterCsv, rankCol, aggPc>>
extVars == <<designCol, fileName, coreTrail, idTrail, resolved>>

dupVars == <<pooled, outDirs, dupRuns, arrived, lastRun, unreadable>>

joinVars == <<joinTables, candidates, podium, podiumAtStart, joinRuns, joinReport>>

nameVars == <<subNames, written, recovered, namePc>>

selVars == <<selection, pipePc, poolRuns, treeBefore>>

vars == <<aggVars, extVars, dupVars, joinVars, nameVars, selVars>>

----------------------------------------------------------------------------
(* Bounds and small input sets *)

MaxRows == 3                  \* score rows in the whole stats tree
MaxDesigns == 2               \* rows of the master table when only its Design column matters
MaxNameLen == 5               \* symbols of an enumerated file name
MaxApply == 2                 \* times an extractor is applied to its own output
MaxFiles == 3                 \* candidate files in one filter-cutoff directory
MaxRuns == 2                  \* runs of one stage in one behaviour
MaxCandidates == 2            \* structure files in the tree Rank Join walks
MaxNameParts == 2             \* parts of a subfolder name
MaxSubfolders == 2            \* subfolders of stats/ when only their names matter

Subfolders == {"A", "B"}
CsvFiles   == {"f1", "f2"}
PTMValues  == {1, 2}
PAEValues  == {1, 2}
NoFile     == [exists |-> FALSE, rows |-> <<>>]   \* a path where no file is
NoValue    == 0               \* a metric column that the table does not have

----------------------------------------------------------------------------
(* Generic helpers *)

SeqsUpTo(S, n) == UNION {[1..k -> S] : k \in 0..n}

Range(f) == {f[x] : x \in DOMAIN f}

\* File names compare as Python strings do; only "f1" < "f2" occurs.
NameLess(a, b) == a = "f1" /\ b = "f2"

RECURSIVE SortedNames(_)
SortedNames(S) ==
    IF S = {} THEN <<>>
    ELSE LET m == CHOOSE x \in S : \A y \in S : ~NameLess(y, x)
         IN  <<m>> \o SortedNames(S \ {m})

RECURSIVE Flatten(_)
Flatten(ss) == IF ss = <<>> THEN <<>> ELSE Head(ss) \o Flatten(Tail(ss))

\* The element of a set of one element: in Once({F(v) : v \in {e}}) the value
\* of e is worked out once, however often F uses v.
Once(S) == CHOOSE x \in S : TRUE

\* A csv file holding the table t.
CsvOf(t) == [exists |-> TRUE, rows |-> t]

----------------------------------------------------------------------------
(* Score Aggregator: 4.merge_and_sort_1st_iPTM_2nd_iPAE_..._processing.py *)

\* csv_files of one subfolder, after glob and sorted(): a file without rows
\* stands for a file that is not there.
CsvFilesOf(sub) == SortedNames({f \in CsvFiles : stats[sub][f] # <<>>})

\* pd.read_csv plus the two provenance columns (lines 90-93). Field design
\* says whether the row has a Design cell: the script reads a table whatever
\* its columns are, and pd.concat gives the rows of a table without the column
\* an empty cell (NaN) in the concatenated table.
ReadCsv(sub, f) ==
    [i \in 1..Len(stats[sub][f]) |->
        [ptm |-> stats[sub][f][i].ptm, pae |-> stats[sub][f][i].pae,
         design |-> <<sub, f>> \notin noDesign,
         source_subfolder |-> sub, source_file |-> f]]

\* subdir_dfs of one subfolder (lines 86-96).
SubdirDfs(sub) ==
    LET fs == CsvFilesOf(sub) IN [k \in 1..Len(fs) |-> ReadCsv(sub, fs[k])]

\* pd.concat(dfs, ignore_index=True): the rows in order, indexed 1..n. The
\* index is kept in field pos: it is the row's place in the concatenated input.
Concat(dfs) ==
    LET rows == Flatten(dfs)
    IN  [i \in 1..Len(rows) |->
            [ptm |-> rows[i].ptm, pae |-> rows[i].pae, design |-> rows[i].design,
             source_subfolder |-> rows[i].source_subfolder,
             source_file |-> rows[i].source_file, pos |-> i]]

\* all_dfs after the subfolder loop has run over subdirs in the order ord.
AllDfs(ord) == Flatten([k \in 1..Len(ord) |-> SubdirDfs(ord[k])])

\* sort_columns / sort_ascending (lines 106-115, 133-142): a strictly before b.
Before(a, b) ==
    \/ hasPTM /\ a.ptm > b.ptm
    \/ (hasPTM => a.ptm = b.ptm) /\ hasPAE /\ a.pae < b.pae

RECURSIVE InsertStable(_, _)
InsertStable(sorted, r) ==
    IF sorted = <<>> THEN <<r>>
    ELSE IF Before(r, Head(sorted)) THEN <<r>> \o sorted
    ELSE <<Head(sorted)>> \o InsertStable(Tail(sorted), r)

RECURSIVE StableSort(_)
StableSort(rows) ==
    IF rows = <<>> THEN <<>>
    ELSE InsertStable(StableSort(SubSeq(rows, 1, Len(rows) - 1)), rows[Len(rows)])

IsOrdered(t) == \A i, j \in 1..Len(t) : i < j => ~Before(t[j], t[i])

Rearrangements(rows) ==
    {[i \in 1..Len(rows) |-> rows[p[i]]] : p \in Permutations(1..Len(rows))}

\* SortValues with the sort left out: the rows stay in concatenation order.
SortValuesUnsorted(rows) == {rows}

\* DataFrame.sort_values(sort_columns, ascending=sort_ascending) with the
\* default kind='quicksort'. With two sort columns pandas sorts
\* lexicographically with a stable sort; with one column it uses the requested
\* kind, quicksort, which orders the keys but gives no order among equal keys:
\* every ordered rearrangement is a possible outcome. Without a metric column
\* the script does not sort.
SortValues(rows) ==
    IF hasPTM /\ hasPAE THEN {StableSort(rows)}
    ELSE IF hasPTM \/ hasPAE THEN {t \in Rearrangements(rows) : IsOrdered(t)}
    ELSE {rows}

\* Lines 102-124: the merged table of one subfolder, when it has any file.
MergedSubOutcomes(sub) ==
    IF SubdirDfs(sub) = <<>> THEN {NoFile}
    ELSE {CsvOf(t) : t \in SortValues(Concat(SubdirDfs(sub)))}

\* Lines 128-160: the master table.
MasterOutcomes(ord) ==
    IF AllDfs(ord) = <<>> THEN {NoFile}
    ELSE {CsvOf(t) : t \in SortValues(Concat(AllDfs(ord)))}

\* The orders in which os.listdir can return the names of S.
Orders(S) == {o \in [1..Cardinality(S) -> S] : Range(o) = S}

\* No table has been read back.
NotRead == [read |-> FALSE, master |-> <<>>, sub |-> [s \in Subfolders |-> <<>>]]

\* One run of the script (lines 47-160): the subfolders come in the order
\* os.listdir gives them, every subfolder's merged table and the master table
\* are written, replacing those of an earlier run.
Aggregate ==
    /\ aggPc = "start"
    /\ \E ord \in Orders(Subfolders) :
         /\ subdirOrder' = ord
         /\ mergedSub' \in {m \in [Subfolders -> UNION {MergedSubOutcomes(s) : s \in Subfolders}] :
                              \A s \in Subfolders : m[s] \in MergedSubOutcomes(s)}
         /\ masterCsv' \in MasterOutcomes(ord)
    /\ aggPc' = "merged"
    /\ rankCol' = NotRead
    /\ UNCHANGED <<stats, hasPTM, hasPAE, noDesign>>
    /\ UNCHANGED <<extVars, dupVars, joinVars, nameVars, selVars>>

\* RankRange numbering from 0, as range(len(df)) would.
RankRangeFromZero(n) == [i \in 1..n |-> i - 1]

\* range(1, len(df) + 1): the rank column given to a table of n rows
\* (6.ranking_batch1.2.py lines 40 and 73, 9_exluding_doublets.py line 44).
RankRange(n) == [i \in 1..n |-> i]

\* 'Design' in df.columns: a merged table has the column when one of the
\* tables concatenated into it has.
HasDesignColumn(csv) == \E i \in 1..Len(csv.rows) : csv.rows[i].design

\* Lines 39-40 and 67-73: a table without the file or without the Design
\* column gets no ranks.
RankColumnOf(csv) ==
    IF csv.exists /\ HasDesignColumn(csv) THEN RankRange(Len(csv.rows)) ELSE <<>>

\* get_file_rankings / get_master_rankings read the merged tables back and
\* number their rows; without the master file or its Design column nothing is
\* read.
ReadRankings ==
    /\ aggPc = "merged"
    /\ rankCol' = IF ~masterCsv.exists \/ ~HasDesignColumn(masterCsv) THEN NotRead
                  ELSE [read |-> TRUE, master |-> RankColumnOf(masterCsv),
                        sub |-> [s \in Subfolders |-> RankColumnOf(mergedSub[s])]]
    /\ aggPc' = "read"
    /\ UNCHANGED <<stats, hasPTM, hasPAE, noDesign, subdirOrder, mergedSub, masterCsv>>
    /\ UNCHANGED <<extVars, dupVars, joinVars, nameVars, selVars>>

AggIdle ==
    /\ stats = [s \in Subfolders |-> [f \in CsvFiles |-> <<>>]]
    /\ hasPTM = FALSE
    /\ hasPAE = FALSE
    /\ noDesign = {}
    /\ subdirOrder = <<>>
    /\ mergedSub = [s \in Subfolders |-> NoFile]
    /\ masterCsv = NoFile
    /\ rankCol = NotRead
    /\ aggPc = "idle"

\* No selection directory, no outputs, nothing run.
NoOutputs == [made |-> FALSE, unique |-> <<>>, notUnique |-> <<>>]

NoRun == [before |-> NoOutputs, arrived |-> {}, raised |-> FALSE]

\* The directories of the structure-file tree that hold .pdb files, as path
\* parts below the working directory.
JoinDirs ==
    { <<"A", "pooled", "aligned", "filtered">>,
      <<"B", "pooled", "aligned", "filtered">>,
      <<"pooled", "aligned", "filtered">>,
      <<"A", "pooled", "aligned", "failed">>,
      <<"A", "run", "pooled", "aligned", "filtered">> }

NoTables == [masterOk |-> FALSE, master |-> <<>>, source |-> <<>>,
             sub |-> [v \in {"A", "B"} |-> <<>>]]

\* Nothing has run yet, so there is no exit status and no summary.
NoReport == [ran |-> FALSE, exit |-> 0, loop |-> FALSE,
             found |-> 0, copied |-> 0, skipped |-> 0, overwritten |-> 0]

\* No score tables, no structure files, nothing run.
JoinIdle ==
    /\ joinTables = NoTables
    /\ candidates = {}
    /\ podium = [d \in JoinDirs |-> <<>>]
    /\ podiumAtStart = podium
    /\ joinRuns = 0
    /\ joinReport = NoReport

\* No subfolder, no merged table.
NamesIdle ==
    /\ subNames = {}
    /\ written = <<>>
    /\ recovered = <<>>
    /\ namePc = "idle"

\* No selection directory, no pipeline run.
SelIdle ==
    /\ selection = <<>>
    /\ pipePc = "idle"
    /\ poolRuns = 0
    /\ treeBefore = <<>>

DupIdle ==
    /\ pooled = [exists |-> FALSE, files |-> <<>>]
    /\ outDirs = NoOutputs
    /\ dupRuns = 0
    /\ arrived = {}
    /\ lastRun = NoRun
    /\ unreadable = {}

----------------------------------------------------------------------------
(* Names.  A name is a sequence of symbols: a digit, "_", ".", or a word      *)
(* ("x", "y", "s", "ag", "mpnn", "model", "aligned", "pdb") that stands for   *)
(* its letters.  No word contains a digit, "_", "." or another word, so a     *)
(* regular expression or substring test on the symbols matches exactly where  *)
(* it matches on the characters.                                              *)

DigitSymbol == <<"0", "1", "2", "3", "4", "5", "6", "7", "8", "9">>
Digits == Range(DigitSymbol)
IsDigit(c) == c \in Digits

Str(s, i, j) == SubSeq(s, i, j)
From(s, i) == SubSeq(s, i, Len(s))

\* The place after the digits that start at place i (i itself when none does).
RECURSIVE DigitRunEnd(_, _)
DigitRunEnd(s, i) ==
    IF i <= Len(s) /\ IsDigit(s[i]) THEN DigitRunEnd(s, i + 1) ELSE i

\* Length of the match of ^\d+_\d+_ at the start of s, 0 without a match.
RankPrefixLen(s) ==
    LET e1 == DigitRunEnd(s, 1)
        e2 == DigitRunEnd(s, e1 + 1)
    IN  IF /\ e1 > 1 /\ e1 <= Len(s) /\ s[e1] = "_"
           /\ e2 > e1 + 1 /\ e2 <= Len(s) /\ s[e2] = "_"
        THEN e2 ELSE 0

\* re.sub(r'^\d+_\d+_', '', s): one leading pair of digit groups is removed.
StripRankPrefix(s) == From(s, RankPrefixLen(s) + 1)

\* s up to the leftmost of the places hits, all of s when there is none.
CutAtFirst(s, hits) ==
    IF hits = {} THEN s
    ELSE Str(s, 1, (CHOOSE i \in hits : \A k \in hits : i <= k) - 1)

ModelAt(s, i) ==
    i + 2 <= Len(s) /\ s[i] = "_" /\ s[i + 1] = "model" /\ IsDigit(s[i + 2])

AlignedAt(s, i) == i + 1 <= Len(s) /\ s[i] = "_" /\ s[i + 1] = "aligned"

\* re.sub(r'_model\d+.*$', '', s) and re.sub(r'_aligned.*$', '', s).
StripModel(s) == CutAtFirst(s, {i \in 1..Len(s) : ModelAt(s, i)})
StripAligned(s) == CutAtFirst(s, {i \in 1..Len(s) : AlignedAt(s, i)})

\* os.path.splitext(s)[0]: s up to its last dot, when a symbol other than a
\* dot comes before that dot.
SplitExt(s) ==
    LET dots == {i \in 1..Len(s) : s[i] = "."}
    IN  IF dots = {} THEN s
        ELSE LET d == CHOOSE i \in dots : \A k \in dots : k <= i
             IN  IF \E k \in 1..(d - 1) : s[k] # "." THEN Str(s, 1, d - 1) ELSE s

\* needle in hay (Python's substring test).
Contains(hay, needle) ==
    \E i \in 1..(Len(hay) - Len(needle) + 1) : Str(hay, i, i + Len(needle) - 1) = needle

Ag1 == <<"_", "ag", "1", "_">>
Seven == <<"_", "7", "_">>

\* s.replace('_ag1_', '_7_'): every occurrence, left to right, not overlapping.
RECURSIVE ReplaceAg1(_)
ReplaceAg1(s) ==
    IF s = <<>> THEN <<>>
    ELSE IF Len(s) >= 4 /\ Str(s, 1, 4) = Ag1 THEN Seven \o ReplaceAg1(From(s, 5))
    ELSE <<Head(s)>> \o ReplaceAg1(Tail(s))

----------------------------------------------------------------------------
(* The master rankings: 9_exluding_doublets.py get_master_rankings *)

NoRank == 0      \* rank is None

\* An empty Design cell is read as NaN.
NotNa(design) == design # <<>>

\* rankings[k] = v on a dict kept as its items in insertion order: a key that
\* is there keeps its place and takes the new value.
DictPut(items, k, v) ==
    IF \E i \in 1..Len(items) : items[i].key = k
    THEN [i \in 1..Len(items) |-> IF items[i].key = k THEN [key |-> k, rank |-> v] ELSE items[i]]
    ELSE Append(items, [key |-> k, rank |-> v])

\* Lines 51-56 over the first n rows: csv_rank is the row's place (line 44).
RECURSIVE RankingsUpTo(_, _)
RankingsUpTo(col, n) ==
    IF n = 0 THEN <<>>
    ELSE IF NotNa(col[n]) THEN DictPut(RankingsUpTo(col, n - 1), SplitExt(col[n]), RankRange(Len(col))[n])
    ELSE RankingsUpTo(col, n - 1)

MasterRankings(col) == RankingsUpTo(col, Len(col))

Keys(items) == {items[i].key : i \in 1..Len(items)}

\* master_rankings.get(k)
DictGet(items, k) ==
    IF k \in Keys(items)
    THEN items[CHOOSE i \in 1..Len(items) : items[i].key = k].rank
    ELSE NoRank

----------------------------------------------------------------------------
(* Identifier extraction *)

\* Lines 18-21 of 9_exluding_doublets.py.
BaseName(filename) == StripAligned(StripModel(StripRankPrefix(SplitExt(filename))))

\* extract_core_identifier_with_ag1_fallback without the '_ag1_' fallback.
ExtractCoreNoFallback(filename, rankings) == BaseName(filename)

\* extract_core_identifier_with_ag1_fallback (lines 16-32).
ExtractCore(filename, rankings) ==
    LET base_name == BaseName(filename)
        alt_name == ReplaceAg1(base_name)
    IN  IF base_name \in Keys(rankings) THEN base_name
        ELSE IF Contains(base_name, Ag1) /\ alt_name \in Keys(rankings) THEN alt_name
        ELSE base_name

\* The first item, in the dict's order, whose key contains core or is contained
\* in it (lines 70-74); 0 when there is none.
FuzzyIndex(core, rankings) ==
    LET hits == {i \in 1..Len(rankings) :
                    Contains(core, rankings[i].key) \/ Contains(rankings[i].key, core)}
    IN  IF hits = {} THEN 0 ELSE CHOOSE i \in hits : \A k \in hits : i <= k

\* Lines 65-79 of find_best_and_worst_ranked_files for one file: the core
\* identifier and the rank found for it, NoRank when none is.
Resolve(filename, rankings) ==
    LET core == ExtractCore(filename, rankings)
        rank == DictGet(rankings, core)
        fz == FuzzyIndex(core, rankings)
    IN  [core |-> core,
         rank |-> IF rank # NoRank THEN rank
                  ELSE IF fz # 0 THEN rankings[fz].rank ELSE NoRank]

\* extract_identifier of 6.ranking_batch1.2.py: the leftmost match of
\* s\d+_mpnn\d+, None (found = FALSE) without one.
IdMatchEnd(s, i) ==
    LET e1 == DigitRunEnd(s, i + 1)
        e2 == DigitRunEnd(s, e1 + 2)
    IN  IF /\ s[i] = "s" /\ e1 > i + 1
           /\ e1 + 1 <= Len(s) /\ s[e1] = "_" /\ s[e1 + 1] = "mpnn"
           /\ e2 > e1 + 2
        THEN e2 - 1 ELSE 0

NoId == [found |-> FALSE, id |-> <<>>]

ExtractIdentifier(s) ==
    LET hits == {i \in 1..Len(s) : IdMatchEnd(s, i) # 0}
    IN  IF hits = {} THEN NoId
        ELSE LET i == CHOOSE h \in hits : \A k \in hits : h <= k
             IN  [found |-> TRUE, id |-> Str(s, i, IdMatchEnd(s, i))]

----------------------------------------------------------------------------
(* The extractors applied to file names (specification SpecExt) *)

Pdb == <<".", "pdb">>

\* Design names as they stand in the master table.
DesignNames ==
    { <<"x", "_", "7", "_", "s", "1", "_", "mpnn", "1">>,
      <<"x", "_", "7", "_", "s", "1", "_", "mpnn", "2">>,
      <<"s", "1", "_", "mpnn", "1">>,
      <<>> }

\* Candidate file names after the upstream renaming stages: an optional rank
\* prefix, a design name in the old or the new convention, an optional model
\* or alignment suffix.
FileBodies ==
    { <<"x", "_", "ag", "1", "_", "s", "1", "_", "mpnn", "1">>,
      <<"x", "_", "7", "_", "s", "1", "_", "mpnn", "1">>,
      <<"x", "_", "ag", "1", "_", "s", "1", "_", "mpnn", "2">>,
      <<"y", "_", "s", "2", "_", "mpnn", "1">>,
      <<"x", "_", "7", "_", "s", "1">> }
FilePrefixes == { <<>>, <<"1", "_", "2", "_">>, <<"1", "_", "2", "_", "2", "_", "1", "_">> }
FileSuffixes == { <<>>, <<"_", "model", "1">>, <<"_", "aligned">> }

PipelineFileNames ==
    {p \o b \o x \o Pdb : p \in FilePrefixes, b \in FileBodies, x \in FileSuffixes}

\* Every name of up to n symbols over a small alphabet.
NameAlphabet == {"1", "_", ".", "x", "model"}
EnumeratedNames == SeqsUpTo(NameAlphabet, MaxNameLen)

NotResolved == [done |-> FALSE, core |-> <<>>, rank |-> NoRank]

ExtIdle ==
    /\ designCol = <<>>
    /\ fileName = <<>>
    /\ coreTrail = <<>>
    /\ idTrail = <<>>
    /\ resolved = NotResolved

Last(t) == t[Len(t)]

\* extract_core_identifier_with_ag1_fallback on the file name, then on its own
\* output.
ApplyExtractCore ==
    /\ Len(coreTrail) < MaxApply
    /\ coreTrail' = Append(coreTrail,
                           ExtractCore(IF coreTrail = <<>> THEN fileName ELSE Last(coreTrail),
                                       MasterRankings(designCol)))
    /\ UNCHANGED <<designCol, fileName, idTrail, resolved>>
    /\ UNCHANGED <<aggVars, dupVars, joinVars, nameVars, selVars>>

\* extract_identifier on the file name, then on its own output (None is not
\* a string and cannot be passed on).
ApplyExtractIdentifier ==
    /\ Len(coreTrail) = MaxApply
    /\ Len(idTrail) < MaxApply
    /\ IF idTrail = <<>> THEN TRUE ELSE Last(idTrail).found
    /\ idTrail' = Append(idTrail,
                         ExtractIdentifier(IF idTrail = <<>> THEN fileName ELSE Last(idTrail).id))
    /\ UNCHANGED <<designCol, fileName, coreTrail, resolved>>
    /\ UNCHANGED <<aggVars, dupVars, joinVars, nameVars, selVars>>

\* The rank lookup of find_best_and_worst_ranked_files for the file name.
ResolveFile ==
    /\ Len(coreTrail) = MaxApply
    /\ IF idTrail = <<>> THEN FALSE ELSE Len(idTrail) = MaxApply \/ ~Last(idTrail).found
    /\ ~resolved.done
    /\ resolved' = [done |-> TRUE] @@ Resolve(fileName, MasterRankings(designCol))
    /\ UNCHANGED <<designCol, fileName, coreTrail, idTrail>>
    /\ UNCHANGED <<aggVars, dupVars, joinVars, nameVars, selVars>>

\* Master tables of one row more in which a design stands in two rows (the
\* same design scored in two subfolders): its key keeps the place of the
\* first row and gets the rank of the last.
RepeatedDesignColumns ==
    {c \in [1..(MaxDesigns + 1) -> DesignNames \ {<<>>}] :
        \E i, j \in 1..(MaxDesigns + 1) : i < j /\ c[i] = c[j]}

ExtInit ==
    /\ \/ /\ fileName \in EnumeratedNames
          /\ designCol = << <<"x">>, <<"x", "_", "1">> >>
       \/ /\ fileName \in PipelineFileNames
          /\ designCol \in SeqsUpTo(DesignNames, MaxDesigns)
       \/ /\ fileName \in PipelineFileNames
          /\ designCol \in RepeatedDesignColumns
    /\ coreTrail = <<>>
    /\ idTrail = <<>>
    /\ resolved = NotResolved
    /\ AggIdle
    /\ DupIdle
    /\ JoinIdle
    /\ NamesIdle
    /\ SelIdle

ExtNext == ApplyExtractCore \/ ApplyExtractIdentifier \/ ResolveFile

SpecExt == ExtInit /\ [][ExtNext]_vars

----------------------------------------------------------------------------
(* Duplicate Resolution: 9_exluding_doublets.py process_duplicates.  One of   *)
(* the directories of pooled_dirs is modelled: the loop handles each alone,   *)
(* with the same master rankings.                                             *)

NoGroup == <<>>

\* The place after a match of _s\d+_ that starts at place i, 0 without one.
SNumberEnd(s, i) ==
    LET e == DigitRunEnd(s, i + 2)
    IN  IF /\ i + 1 <= Len(s) /\ s[i] = "_" /\ s[i + 1] = "s"
           /\ e > i + 2 /\ e <= Len(s) /\ s[e] = "_"
        THEN e ELSE 0

\* extract_s_number: the digits of the leftmost _s<digits>_, None without one.
SNumber(filename) ==
    LET hits == {i \in 1..Len(filename) : SNumberEnd(filename, i) # 0}
    IN  IF hits = {} THEN NoGroup
        ELSE LET i == CHOOSE h \in hits : \A k \in hits : h <= k
             IN  Str(filename, i + 2, SNumberEnd(filename, i) - 1)

\* The files of a directory in some fixed order.
RECURSIVE ListOf(_)
ListOf(dir) ==
    IF DOMAIN dir = {} THEN <<>>
    ELSE LET n == CHOOSE x \in DOMAIN dir : \A y \in DOMAIN dir : Len(x) <= Len(y)
         IN  <<[name |-> n, data |-> dir[n]]>> \o ListOf([m \in DOMAIN dir \ {n} |-> dir[m]])

\* A glob that also descends into the output subdirectories.
GlobPdbRecursive == pooled.files \o ListOf(outDirs.unique) \o ListOf(outDirs.notUnique)

\* glob.glob(os.path.join(pooled_path, "*.pdb")): the files directly in the
\* directory, in the order the directory lists them.  The order is a property
\* of the directory: it stays as it is while no file is added.

GlobPdb == pooled.files

\* s_number_groups: the group tokens in order of first appearance (lines
\* 117-124); a file without a token joins no group.
RECURSIVE GroupTokens(_)
GroupTokens(files) ==
    IF files = <<>> THEN <<>>
    ELSE LET rest == GroupTokens(SubSeq(files, 1, Len(files) - 1))
             g == SNumber(files[Len(files)].name)
         IN  IF g = NoGroup \/ g \in Range(rest) THEN rest ELSE Append(rest, g)

GroupFiles(files, g) == SelectSeq(files, LAMBDA f : SNumber(f.name) = g)

\* file_rankings of lines 62-79: the members a rank is found for, in order.
RECURSIVE FileRankings(_, _)
FileRankings(files, rankings) ==
    IF files = <<>> THEN <<>>
    ELSE LET r == Resolve(Head(files).name, rankings)
         IN  (IF r.rank # NoRank
              THEN <<[file |-> Head(files), rank |-> r.rank, core |-> r.core]>>
              ELSE <<>>) \o FileRankings(Tail(files), rankings)

\* list.sort(key=lambda x: x[1]) is stable: equal ranks keep their order.
RECURSIVE InsertByRank(_, _)
InsertByRank(sorted, e) ==
    IF sorted = <<>> THEN <<e>>
    ELSE IF e.rank < Head(sorted).rank THEN <<e>> \o sorted
    ELSE <<Head(sorted)>> \o InsertByRank(Tail(sorted), e)

RECURSIVE SortByRank(_)
SortByRank(es) ==
    IF es = <<>> THEN <<>>
    ELSE InsertByRank(SortByRank(SubSeq(es, 1, Len(es) - 1)), es[Len(es)])

\* find_best_and_worst_ranked_files (lines 60-88).
FindBestAndWorst(files, rankings) ==
    LET sorted == SortByRank(FileRankings(files, rankings))
    IN  IF sorted = <<>> THEN [found |-> FALSE, best |-> <<>>, worst |-> <<>>]
        ELSE [found |-> TRUE, best |-> <<Head(sorted).file>>,
              worst |-> [i \in 1..(Len(sorted) - 1) |-> sorted[i + 1].file]]

\* A directory is its files, name to content.  Lines 136-138, 147-149,
\* 155-157: copy unless the destination exists.
CopyOverwriting(dir, f) == (f.name :> f.data) @@ dir

CopyIfAbsent(dir, f) ==
    IF f.name \in DOMAIN dir THEN dir ELSE (f.name :> f.data) @@ dir

\* shutil.copy2 raises where CopyRaises would go on to the next file.
CopyNeverRaises(dir, f) == FALSE

\* shutil.copy2 is called, for a destination that is not there, and raises
\* OSError because the source cannot be read.
CopyRaises(dir, f) == f.name \notin DOMAIN dir /\ f.name \in unreadable

\* A copy of one of fs into dir raises (the names of fs are distinct).
AnyCopyRaises(dir, fs) == \E i \in 1..Len(fs) : CopyRaises(dir, fs[i])

\* The copies of fs into dir, in order, as far as the first one that raises.
RECURSIVE CopyAllIfAbsent(_, _)
CopyAllIfAbsent(dir, fs) ==
    IF fs = <<>> \/ CopyRaises(dir, Head(fs)) THEN dir
    ELSE Once({CopyAllIfAbsent(d, Tail(fs)) : d \in {CopyIfAbsent(dir, Head(fs))}})

\* Lines 130-157 for one group.  No copy is inside a try: an exception of
\* shutil.copy2 leaves the loop and the function (field raised), and what was
\* copied before it stays.
\* Lines 143-157: the best file to unique/, then the others to
\* not_unique_basefold/; nothing when no member has a rank.
CopyBestAndWorst(out, r) ==
    IF ~r.found THEN out
    ELSE IF AnyCopyRaises(out.unique, r.best)
    THEN [out EXCEPT !.unique = CopyAllIfAbsent(out.unique, r.best), !.raised = TRUE]
    ELSE [out EXCEPT !.unique = CopyAllIfAbsent(out.unique, r.best),
                     !.notUnique = CopyAllIfAbsent(out.notUnique, r.worst),
                     !.raised = AnyCopyRaises(out.notUnique, r.worst)]

ProcessGroup(out, files, rankings) ==
    IF out.raised THEN out
    ELSE IF Len(files) = 1
    THEN [out EXCEPT !.unique = CopyAllIfAbsent(out.unique, files),
                     !.raised = AnyCopyRaises(out.unique, files)]
    ELSE Once({CopyBestAndWorst(out, r) : r \in {FindBestAndWorst(files, rankings)}})

\* The loop of line 129 over the groups gs.
RECURSIVE ProcessGroups(_, _, _, _)
ProcessGroups(out, gs, files, rankings) ==
    IF gs = <<>> THEN out
    ELSE Once({ProcessGroups(o, Tail(gs), files, rankings) :
                  o \in {ProcessGroup(out, GroupFiles(files, Head(gs)), rankings)}})

\* process_duplicates (lines 90-160): nothing happens without rankings or
\* without the directory; otherwise the two output directories are made and
\* every group is handled.
OutputsAfterRun ==
    LET rankings == MasterRankings(designCol)
        start == [made |-> outDirs.made, unique |-> outDirs.unique,
                  notUnique |-> outDirs.notUnique, raised |-> FALSE]
    IN  IF rankings = <<>> \/ ~pooled.exists THEN start
        ELSE ProcessGroups([start EXCEPT !.made = TRUE],
                           GroupTokens(GlobPdb), GlobPdb, rankings)

RunDuplicateResolution ==
    /\ dupRuns < MaxRuns
    /\ \E out \in {OutputsAfterRun} :
         /\ outDirs' = [made |-> out.made, unique |-> out.unique, notUnique |-> out.notUnique]
         /\ lastRun' = [before |-> outDirs, arrived |-> arrived, raised |-> out.raised]
    /\ dupRuns' = dupRuns + 1
    /\ arrived' = {}
    /\ UNCHANGED <<pooled, unreadable, designCol, fileName, coreTrail, idTrail, resolved>>
    /\ UNCHANGED <<aggVars, joinVars, nameVars, selVars>>

\* The candidate files that can turn up in a selection directory.
SelectionFileNames ==
    { <<"1", "_", "2", "_", "x", "_", "7", "_", "s", "1", "_", "mpnn", "1", "_", "model", "1">> \o Pdb,
      <<"x", "_", "7", "_", "s", "1", "_", "mpnn", "1", "_", "model", "2">> \o Pdb,
      <<"x", "_", "ag", "1", "_", "s", "1", "_", "mpnn", "2">> \o Pdb,
      <<"y", "_", "s", "2", "_", "mpnn", "1">> \o Pdb,
      <<"x">> \o Pdb }

\* The candidate files written again since they were first listed.
Rewritten == {pooled.files[i].name : i \in {k \in 1..Len(pooled.files) : pooled.files[k].data = 2}}

InsertAt(seq, i, e) == SubSeq(seq, 1, i - 1) \o <<e>> \o SubSeq(seq, i, Len(seq))

\* Between two runs one new candidate file arrives in the directory (pooled
\* there by the selection stages); the files already there keep their order.
AddCandidateFile ==
    /\ dupRuns >= 1
    /\ dupRuns < MaxRuns
    /\ arrived = {}
    /\ Rewritten = {}
    /\ pooled.exists
    /\ Len(pooled.files) < MaxFiles
    /\ \E n \in SelectionFileNames, i \in 1..(Len(pooled.files) + 1) :
         /\ \A k \in 1..Len(pooled.files) : pooled.files[k].name # n
         /\ pooled' = [pooled EXCEPT !.files = InsertAt(pooled.files, i, [name |-> n, data |-> 1])]
         /\ arrived' = arrived \cup {n}
    /\ UNCHANGED <<outDirs, dupRuns, lastRun, unreadable, designCol, fileName, coreTrail, idTrail, resolved>>
    /\ UNCHANGED <<aggVars, joinVars, nameVars, selVars>>

\* Between two runs one candidate file a run has copied is written again with
\* other content (a selection stage run again over the same design); once in
\* a behaviour, and no file arrives after it.
RewriteCandidateFile ==
    /\ dupRuns >= 1
    /\ dupRuns < MaxRuns
    /\ arrived = {}
    /\ Rewritten = {}
    /\ \E i \in 1..Len(pooled.files) :
         /\ pooled.files[i].name \in DOMAIN outDirs.unique \cup DOMAIN outDirs.notUnique
         /\ pooled' = [pooled EXCEPT !.files[i].data = 2]
    /\ UNCHANGED <<outDirs, dupRuns, arrived, lastRun, unreadable, designCol, fileName, coreTrail, idTrail, resolved>>
    /\ UNCHANGED <<aggVars, joinVars, nameVars, selVars>>

IsInjective(seq) == \A i, j \in 1..Len(seq) : i # j => seq[i] # seq[j]

\* The directory before the first run; the files of the listing at the places
\* of noRead cannot be read.
DupStart(noRead) ==
    /\ designCol \in SeqsUpTo(DesignNames \ {<<>>}, MaxDesigns)
    /\ \E names \in SeqsUpTo(SelectionFileNames, MaxFiles) :
         /\ IsInjective(names)
         /\ \E e \in (IF names = <<>> THEN BOOLEAN ELSE {TRUE}) :
              pooled = [exists |-> e, files |-> [i \in 1..Len(names) |-> [name |-> names[i], data |-> 1]]]
    /\ unreadable = {pooled.files[i].name : i \in noRead \cap (1..Len(pooled.files))}
    /\ outDirs = NoOutputs
    /\ dupRuns = 0
    /\ arrived = {}
    /\ lastRun = NoRun
    /\ fileName = <<>>
    /\ coreTrail = <<>>
    /\ idTrail = <<>>
    /\ resolved = NotResolved
    /\ AggIdle
    /\ JoinIdle
    /\ NamesIdle
    /\ SelIdle

\* Every candidate file can be read.
DupInit == DupStart({})

DupNext == RunDuplicateResolution \/ AddCandidateFile \/ RewriteCandidateFile

SpecDup == DupInit /\ [][DupNext]_vars

\* One candidate file of the directory cannot be read (a permission, a
\* dangling link).
DupIOInit ==
    \E i \in 1..MaxFiles :
        /\ DupStart({i})
        /\ unreadable # {}

SpecDupIO == DupIOInit /\ [][DupNext]_vars

----------------------------------------------------------------------------
(* Properties of Duplicate Resolution *)

CandidateNames == {pooled.files[i].name : i \in 1..Len(pooled.files)}

GroupTokenSet == Range(GroupTokens(pooled.files))

Members(g) == {n \in CandidateNames : SNumber(n) = g}

RankOf(n) == Resolve(n, MasterRankings(designCol)).rank

Resolves(n) == RankOf(n) # NoRank

InUnique(n) == n \in DOMAIN outDirs.unique

InNotUnique(n) == n \in DOMAIN outDirs.notUnique

IsLowestResolved(n, g) ==
    /\ Resolves(n)
    /\ \A m \in Members(g) : Resolves(m) => RankOf(n) <= RankOf(m)

IsMixedGroup(g) ==
    /\ Cardinality(Members(g)) >= 2
    /\ \E n \in Members(g) : Resolves(n)
    /\ \E n \in Members(g) : ~Resolves(n)

\* The last thing that happened is a run that handled the directory.
JustRan ==
    /\ dupRuns >= 1
    /\ arrived = {}
    /\ outDirs.made

\* C5: a second run on an unchanged directory and an unchanged master table
\* leaves unique/ and not_unique_basefold/ as the first run left them: same
\* files, same contents.
C5_RerunChangesNothing ==
    (dupRuns >= 2 /\ arrived = {} /\ lastRun.arrived = {})
    => /\ outDirs.unique = lastRun.before.unique
       /\ outDirs.notUnique = lastRun.before.notUnique

\* Two runs in a row over a directory the first run put files of into both
\* output directories.
C5_Witness ==
    /\ dupRuns >= 2 /\ arrived = {} /\ lastRun.arrived = {}
    /\ DOMAIN lastRun.before.unique # {}
    /\ DOMAIN lastRun.before.notUnique # {}

\* C6: after a run from empty output directories every group with a candidate
\* file has exactly one member in unique/, and in a group of several members
\* that one is the lowest-ranked of its resolving members; groups without a
\* resolving member included.
C6_OneCanonicalPerGroup ==
    (dupRuns = 1 /\ JustRan)
    => \A g \in GroupTokenSet :
         /\ Cardinality({n \in Members(g) : InUnique(n)}) = 1
         /\ (Cardinality(Members(g)) >= 2 /\ \E n \in Members(g) : Resolves(n))
            => \A n \in Members(g) : InUnique(n) => IsLowestResolved(n, g)

\* C7: after a run, in a group of two or more members of which some resolve
\* and some do not, the member in unique/ is the lowest-ranked resolving one
\* and every unresolved member is in not_unique_basefold/ and not in unique/.
C7_UnresolvedRoutedNonCanonical ==
    JustRan
    => \A g \in GroupTokenSet :
         IsMixedGroup(g)
         => /\ \E n \in Members(g) : InUnique(n) /\ IsLowestResolved(n, g)
            /\ \A n \in Members(g) : ~Resolves(n) => (InNotUnique(n) /\ ~InUnique(n))

\* C8: run, add one file to a group the run has classified, run again: every
\* file that was there before is in the output directory it was in, and in no
\* other.
C8_PreexistingKeepTheirPlace ==
    \A new \in lastRun.arrived :
        (/\ dupRuns >= 2 /\ JustRan
         /\ lastRun.arrived = {new}
         /\ \E n \in Members(SNumber(new)) : n \in DOMAIN lastRun.before.unique)
        => \A n \in CandidateNames \ {new} :
             /\ InUnique(n) <=> n \in DOMAIN lastRun.before.unique
             /\ InNotUnique(n) <=> n \in DOMAIN lastRun.before.notUnique
             /\ ~(InUnique(n) /\ InNotUnique(n))

KeepsContent(before, after) ==
    \A n \in DOMAIN before : n \in DOMAIN after /\ after[n] = before[n]

\* C14: a run never overwrites or changes a file that is already in unique/
\* or in not_unique_basefold/: every file that was there when the run began
\* is there afterwards with the content it had, also when the candidate file
\* of that name has other content by now.
C14_ExistingOutputsKept ==
    /\ KeepsContent(lastRun.before.unique, outDirs.unique)
    /\ KeepsContent(lastRun.before.notUnique, outDirs.notUnique)

\* A run over a directory in which a candidate file was rewritten after an
\* earlier run had copied it: the copy of the earlier run is still there.
C14_Witness ==
    /\ dupRuns >= 2 /\ JustRan
    /\ \E n \in Rewritten :
         (n \in DOMAIN lastRun.before.unique \/ n \in DOMAIN lastRun.before.notUnique)

\* C24: whatever runs and arrivals of candidate files came before, no file
\* name is in both unique/ and not_unique_basefold/, and unique/ holds at most
\* one file of each group.
C24_OutputsDisjointOnePerGroup ==
    /\ DOMAIN outDirs.unique \cap DOMAIN outDirs.notUnique = {}
    /\ \A n, m \in DOMAIN outDirs.unique : SNumber(n) = SNumber(m) => n = m

\* C25: after a run from empty output directories every candidate file of
\* the directory is in exactly one of unique/ and not_unique_basefold/, files
\* without a group token and members of groups without a rank included.
C25_EveryFileClassified ==
    (dupRuns = 1 /\ JustRan)
    => \A n \in CandidateNames : InUnique(n) # InNotUnique(n)

\* unique/ after a run from empty output directories over the listing files.
UniqueOfListing(files) ==
    ProcessGroups([made |-> TRUE, unique |-> <<>>, notUnique |-> <<>>, raised |-> FALSE],
                  GroupTokens(files), files, MasterRankings(designCol)).unique

\* C28: the file a run puts in unique/ for a group does not depend on the
\* order in which the directory lists its files: after a run from empty
\* output directories, a run over any other order of the same files would
\* have put the same files in unique/, members of equal rank included.
C28_ListingOrderIrrelevant ==
    (dupRuns = 1 /\ JustRan)
    => \A p \in Permutations(1..Len(pooled.files)) :
         DOMAIN UniqueOfListing([i \in 1..Len(pooled.files) |-> pooled.files[p[i]]])
         = DOMAIN outDirs.unique

\* C17: a copy failure on one candidate file does not end the stage and does
\* not keep a later file from being copied: after a run from empty output
\* directories the run has not been left by an exception, and every readable
\* file that is the only member of its group is in unique/.
C17_CopyFailureIsLocal ==
    (dupRuns = 1 /\ JustRan)
    => /\ ~lastRun.raised
       /\ \A g \in GroupTokenSet :
             (Cardinality(Members(g)) = 1 /\ Members(g) \cap unreadable = {})
             => \A n \in Members(g) : InUnique(n)

----------------------------------------------------------------------------
(* Rank Join: 6.ranking_batch1.2.py copy_files_with_rankings *)

Variants == {"A", "B"}

\* str(rank) of a positive rank.
RECURSIVE Decimal(_)
Decimal(n) ==
    IF n < 10 THEN <<DigitSymbol[n + 1]>>
    ELSE Decimal(n \div 10) \o <<DigitSymbol[(n % 10) + 1]>>

\* Lines 48-53 and 78-82 over the first n rows of a Design column: the rank of
\* a row is its place, the key its identifier; rows without one are skipped.
RECURSIVE IdRankingsUpTo(_, _)
IdRankingsUpTo(col, n) ==
    IF n = 0 THEN <<>>
    ELSE LET id == ExtractIdentifier(col[n])
         IN  IF NotNa(col[n]) /\ id.found
             THEN DictPut(IdRankingsUpTo(col, n - 1), id.id, RankRange(Len(col))[n])
             ELSE IdRankingsUpTo(col, n - 1)

IdRankings(col) == IdRankingsUpTo(col, Len(col))

\* get_file_rankings (lines 29-84): nothing at all without the master table or
\* its Design column.
FileRankingsOf(tables) ==
    IF ~tables.masterOk
    THEN [master |-> <<>>, individual |-> [v \in Variants |-> <<>>]]
    ELSE [master |-> IdRankings(tables.master),
          individual |-> [v \in Variants |-> IdRankings(tables.sub[v])]]

\* root.endswith("pooled/aligned") or "/pooled/aligned" in root (lines 92,
\* 122), for a root below "." whose parts are the names used here.
IsPooledAligned(root) ==
    \E i \in 1..(Len(root) - 1) : root[i] = "pooled" /\ root[i + 1] = "aligned"

\* find_corresponding_pdb_files (lines 86-102): the .pdb files of the
\* subdirectories named filtered of a pooled/aligned directory.
PdbFiles ==
    {c \in candidates :
        /\ IsPooledAligned(SubSeq(c.dir, 1, Len(c.dir) - 1))
        /\ c.dir[Len(c.dir)] = "filtered"}

NoMother == ""

\* extract_mother_folder_name (lines 104-113): the part before "pooled".
MotherFolder(dir) ==
    LET hits == {i \in 2..Len(dir) : dir[i] = "pooled"}
    IN  IF hits = {} THEN NoMother
        ELSE dir[(CHOOSE h \in hits : \A k \in hits : h <= k) - 1]

\* Lines 115-132 without the removal: the podium directories keep their files.
KeepPodiumDirectories(pod) == pod

\* Lines 119-123 with the root itself taken for the directory to empty.
ClearedDirsAtRoot(pod) == {d \in DOMAIN pod : IsPooledAligned(d)}

\* podium_dirs of lines 117-123: the subdirectories named podium of the
\* directories below a pooled/aligned path.  pod maps a directory to the files
\* of its podium subdirectory.
ClearedDirs(pod) == {d \o <<"podium">> : d \in {e \in DOMAIN pod : IsPooledAligned(e)}}

\* clear_podium_directories (lines 115-132): every file of every podium
\* directory below a pooled/aligned path is removed.
ClearPodiumDirectories(pod) ==
    [d \in DOMAIN pod |-> IF d \o <<"podium">> \in ClearedDirs(pod) THEN <<>> ELSE pod[d]]

\* The structure files that lines 125-131 leave in place: those outside the
\* directories that are emptied.
CandidatesAfterClear(files, pod) == {c \in files : c.dir \notin ClearedDirs(pod)}

\* Line 205 with the two ranks in the other order.
TaggedNameMasterFirst(individualRank, masterRank, pdbFilename) ==
    Decimal(masterRank) \o <<"_">> \o Decimal(individualRank) \o <<"_">> \o pdbFilename

\* Line 205.
TaggedName(individualRank, masterRank, pdbFilename) ==
    Decimal(individualRank) \o <<"_">> \o Decimal(masterRank) \o <<"_">> \o pdbFilename

\* Lines 172-192 for one file: mother folder, identifier and the two ranks.
Lookups(c, rankings) ==
    LET mother == MotherFolder(c.dir)
        id == ExtractIdentifier(c.name)
    IN  [mother |-> mother,
         id |-> id,
         individualRank |-> IF mother \in Variants /\ id.found
                            THEN DictGet(rankings.individual[mother], id.id) ELSE NoRank,
         masterRank |-> IF id.found THEN DictGet(rankings.master, id.id) ELSE NoRank]

\* Lines 173, 182 and 194 with the test of the subfolder rank left out.
SkipsOnMasterOnly(l) ==
    l.mother = NoMother \/ ~l.id.found \/ l.masterRank = NoRank

\* Lines 173, 182 and 194 on the lookups l of a file: the file is skipped.
SkipsOn(l) ==
    l.mother = NoMother \/ ~l.id.found \/ l.individualRank = NoRank \/ l.masterRank = NoRank

IsSkipped(c, rankings) == SkipsOn(Lookups(c, rankings))

\* new_filename of line 205 for a file that is not skipped.
DestOf(l, c) == TaggedName(l.individualRank, l.masterRank, c.name)

DestName(c, rankings) == DestOf(Lookups(c, rankings), c)

\* shutil.copy2(pdb_path, dest_path) of line 212: a file of that name is
\* replaced.
CopyTo(pod, c, dest) ==
    [pod EXCEPT ![c.dir] = (dest :> c.data) @@ [n \in DOMAIN pod[c.dir] \ {dest} |-> pod[c.dir][n]]]

\* Lines 172-212 for one file: skipped without mother folder, identifier or
\* either rank; otherwise copied under its tagged name.
CopyWithRanks(pod, c, rankings) ==
    IF IsSkipped(c, rankings) THEN pod ELSE CopyTo(pod, c, DestName(c, rankings))

\* A loop in which the file without identifier is passed over uncounted.
LoopStepUncounted(acc, c, rankings) ==
    LET l == Lookups(c, rankings)
    IN  IF SkipsOn(l)
        THEN [acc EXCEPT !.skipped = @ + (IF l.id.found THEN 1 ELSE 0)]
        ELSE [acc EXCEPT !.pod = CopyTo(acc.pod, c, DestOf(l, c)), !.copied = @ + 1]

\* One pass of the loop of line 170 with the counters of lines 166-168.
LoopStep(acc, c, rankings) ==
    LET l == Lookups(c, rankings)
        dest == DestOf(l, c)
    IN  IF SkipsOn(l)
        THEN [acc EXCEPT !.skipped = @ + 1]
        ELSE [acc EXCEPT !.pod = CopyTo(acc.pod, c, dest),
                         !.copied = @ + 1,
                         !.overwritten = @ + (IF dest \in DOMAIN acc.pod[c.dir] THEN 1 ELSE 0)]

\* The loop of line 170.  Every file has a destination of its own (its
\* directory's podium, a name that ends in its own name), so the order in
\* which os.walk yields the files does not show in the result.
RECURSIVE CopyAllWithRanks(_, _, _)
CopyAllWithRanks(acc, files, rankings) ==
    IF files = {} THEN acc
    ELSE LET c == CHOOSE x \in files : TRUE
         IN  CopyAllWithRanks(LoopStep(acc, c, rankings), files \ {c}, rankings)

\* The script ends by returning from copy_files_with_rankings (lines 144, 161,
\* 226-229): exit status 0.
ReturnStatus == 0

\* copy_files_with_rankings (lines 134-226) from the podium directories pod:
\* the podium directories it leaves and what it reports.
RunResult(pod) ==
    LET cleared == ClearPodiumDirectories(pod)
        rankings == FileRankingsOf(joinTables)
        early == [pod |-> cleared,
                  report |-> [ran |-> TRUE, exit |-> ReturnStatus, loop |-> FALSE,
                              found |-> 0, copied |-> 0, skipped |-> 0, overwritten |-> 0]]
    IN  IF rankings.master = <<>> /\ \A v \in Variants : rankings.individual[v] = <<>>
        THEN early
        ELSE IF PdbFiles = {} THEN early
        ELSE LET acc == CopyAllWithRanks([pod |-> cleared, copied |-> 0, skipped |-> 0,
                                          overwritten |-> 0], PdbFiles, rankings)
             IN  [pod |-> acc.pod,
                  report |-> [ran |-> TRUE, exit |-> ReturnStatus, loop |-> TRUE,
                              found |-> Cardinality(PdbFiles), copied |-> acc.copied,
                              skipped |-> acc.skipped, overwritten |-> acc.overwritten]]

PodiumAfterRun(pod) == RunResult(pod).pod

\* One run of the script on the tables and the files as they are.
CopyFilesWithRankings ==
    /\ joinRuns < MaxRuns
    /\ LET result == RunResult(podium)
       IN  /\ podium' = result.pod
           /\ joinReport' = result.report
    /\ candidates' = CandidatesAfterClear(candidates, podium)
    /\ joinRuns' = joinRuns + 1
    /\ UNCHANGED <<joinTables, podiumAtStart>>
    /\ UNCHANGED <<aggVars, extVars, dupVars, nameVars>>

RunRankJoin ==
    /\ CopyFilesWithRankings
    /\ UNCHANGED selVars

\* Design names of the score tables.
JoinDesigns ==
    { <<"x", "_", "7", "_", "s", "1", "_", "mpnn", "1">>,
      <<"y", "_", "s", "2", "_", "mpnn", "1">> }

\* The structure files that can be in the tree.
JoinFiles ==
    { [dir |-> <<"A", "pooled", "aligned", "filtered">>, name |-> <<"x", "_", "7", "_", "s", "1", "_", "mpnn", "1">> \o Pdb, data |-> 1],
      [dir |-> <<"A", "pooled", "aligned", "filtered">>, name |-> <<"y", "_", "s", "2", "_", "mpnn", "1">> \o Pdb, data |-> 1],
      [dir |-> <<"A", "pooled", "aligned", "filtered">>, name |-> <<"x">> \o Pdb, data |-> 1],
      [dir |-> <<"B", "pooled", "aligned", "filtered">>, name |-> <<"x", "_", "7", "_", "s", "1", "_", "mpnn", "1">> \o Pdb, data |-> 1],
      [dir |-> <<"pooled", "aligned", "filtered">>, name |-> <<"x", "_", "7", "_", "s", "1", "_", "mpnn", "1">> \o Pdb, data |-> 1],
      [dir |-> <<"A", "pooled", "aligned", "failed">>, name |-> <<"x", "_", "7", "_", "s", "1", "_", "mpnn", "1">> \o Pdb, data |-> 1],
      [dir |-> <<"A", "run", "pooled", "aligned", "filtered">>, name |-> <<"x", "_", "7", "_", "s", "1", "_", "mpnn", "1">> \o Pdb, data |-> 1] }

\* Files an earlier run over other tables or other structure files left in a
\* podium directory: a name with other ranks, a name the run writes again.
StaleNames ==
    { TaggedName(2, 2, <<"x", "_", "7", "_", "s", "1", "_", "mpnn", "1">> \o Pdb),
      TaggedName(1, 1, <<"x", "_", "7", "_", "s", "1", "_", "mpnn", "1">> \o Pdb) }

\* The podium directories before the first run: all empty, or an old file in
\* the podium of the filtered directory of variant A.
StalePodiums ==
    {[d \in JoinDirs |-> <<>>]}
    \cup {[d \in JoinDirs |-> IF d = e THEN (n :> 0) ELSE <<>>] :
             e \in {d \in JoinDirs : d = <<"A", "pooled", "aligned", "filtered">>},
             n \in StaleNames}

\* The state of stats/: the tables as the Score Aggregator leaves them, the
\* same without the master table (or without its Design column), or a master
\* table written after subfolder B was taken out of stats/ while
\* merged_B_stats.csv of an earlier run is still there.
TableStates == {"aggregated", "no master", "B removed"}

DesignsOf(rows) == [i \in 1..Len(rows) |-> rows[i][1]]

\* The source_subfolder column the aggregator gives the rows (line 92 of
\* 4.merge_and_sort_...py).
SourcesOf(rows) == [i \in 1..Len(rows) |-> rows[i][2]]

\* Every master row comes from one subfolder, whose table holds its rows in
\* the master's order.
JoinInit ==
    /\ \E rows \in SeqsUpTo(JoinDesigns \X Variants, MaxDesigns), st \in TableStates :
         joinTables = [masterOk |-> st # "no master",
                       master |-> IF st = "B removed"
                                  THEN DesignsOf(SelectSeq(rows, LAMBDA r : r[2] # "B"))
                                  ELSE DesignsOf(rows),
                       source |-> IF st = "B removed"
                                  THEN SourcesOf(SelectSeq(rows, LAMBDA r : r[2] # "B"))
                                  ELSE SourcesOf(rows),
                       sub |-> [v \in Variants |-> DesignsOf(SelectSeq(rows, LAMBDA r : r[2] = v))]]
    /\ candidates \in {S \in SUBSET JoinFiles : Cardinality(S) <= MaxCandidates}
    /\ podium \in StalePodiums
    /\ podiumAtStart = podium
    /\ joinRuns = 0
    /\ joinReport = NoReport
    /\ AggIdle
    /\ ExtIdle
    /\ DupIdle
    /\ NamesIdle
    /\ SelIdle

JoinNext == RunRankJoin

SpecJoin == JoinInit /\ [][JoinNext]_vars

----------------------------------------------------------------------------
(* Properties of Rank Join *)

NoPodiumFiles == [d \in JoinDirs |-> <<>>]

\* The names a podium directory can hold for the structure file c.
TaggedNamesOf(c) ==
    {TaggedName(i, m, c.name) : i \in 1..MaxDesigns, m \in 1..MaxDesigns}

C22_AbortLeavesFilesUntouched ==
    (joinRuns >= 1 /\ ~joinTables.masterOk)
    => /\ podium = podiumAtStart
       /\ joinReport.copied = 0

\* The identifier of a structure file's name.
IdOf(c) == ExtractIdentifier(c.name)

\* The rows of a Design column that carry the identifier id.
RowsWith(col, id) ==
    {i \in 1..Len(col) : NotNa(col[i]) /\ ExtractIdentifier(col[i]) = [found |-> TRUE, id |-> id]}

\* The rank a table gives an identifier: the place of the last row that
\* carries it.
RankIn(col, id) == CHOOSE i \in RowsWith(col, id) : \A k \in RowsWith(col, id) : k <= i

\* Both lookups of the structure file c succeed: its identifier is in the table
\* of its variant key and in the master table.
BothFound(c) ==
    /\ MotherFolder(c.dir) \in Variants
    /\ IdOf(c).found
    /\ joinTables.masterOk
    /\ RowsWith(joinTables.sub[MotherFolder(c.dir)], IdOf(c).id) # {}
    /\ RowsWith(joinTables.master, IdOf(c).id) # {}

\* The file name n is a rank-tagged name of the structure file c.
IsCopyOf(n, c) ==
    /\ Len(n) > Len(c.name)
    /\ SubSeq(n, Len(n) - Len(c.name) + 1, Len(n)) = c.name
    /\ n[Len(n) - Len(c.name)] = "_"

HasCopy(c) == \E n \in DOMAIN podium[c.dir] : IsCopyOf(n, c)

\* C23: the two ranks of a tagged file name are places of the same score
\* record: for every structure file a run has tagged, the master row at its
\* global rank and the row of its variant table at its subfolder rank hold
\* the same design, and that master row comes from the file's subfolder.
C23_RanksOfOneRecord ==
    joinReport.ran
    => \A c \in PdbFiles :
         (BothFound(c) /\ HasCopy(c))
         => LET v == MotherFolder(c.dir)
                m == RankIn(joinTables.master, IdOf(c).id)
                i == RankIn(joinTables.sub[v], IdOf(c).id)
            IN  /\ joinTables.master[m] = joinTables.sub[v][i]
                /\ joinTables.source[m] = v

\* C11: after a run a discovered structure file has a tagged copy only if its
\* identifier is in the table of its variant key and in the master table; a
\* file for which a lookup fails, or that has no variant key or identifier,
\* has no copy, and a run that reaches the loop counts it as skipped.
C11_CopyOnlyIfBothLookups ==
    joinReport.ran
    => /\ \A c \in PdbFiles : HasCopy(c) <=> BothFound(c)
       /\ joinReport.loop
          => joinReport.skipped = Cardinality({c \in PdbFiles : ~BothFound(c)})

\* A run ended with a file copied, a file skipped for its subfolder lookup and
\* nothing else skipped.
C11_Witness ==
    /\ joinReport.loop
    /\ \E c \in PdbFiles : BothFound(c) /\ HasCopy(c)
    /\ \E c \in PdbFiles :
         /\ ~BothFound(c) /\ ~HasCopy(c)
         /\ IdOf(c).found
         /\ RowsWith(joinTables.master, IdOf(c).id) # {}
    /\ joinReport.skipped = 1

\* C12: the copy of a resolved structure file is named
\* <subfolder rank>_<global rank>_<original name>, the ranks being those of
\* the table of its variant key and of the master table, and has the
\* content of the original.
C12_TaggedNameAndContent ==
    joinReport.ran
    => \A c \in PdbFiles :
         BothFound(c)
         => LET n == Decimal(RankIn(joinTables.sub[MotherFolder(c.dir)], IdOf(c).id))
                     \o <<"_">> \o Decimal(RankIn(joinTables.master, IdOf(c).id))
                     \o <<"_">> \o c.name
            IN  /\ n \in DOMAIN podium[c.dir]
                /\ podium[c.dir][n] = c.data
                /\ \A k \in DOMAIN podium[c.dir] : IsCopyOf(k, c) => k = n

\* A file was copied whose subfolder rank and global rank differ.
C12_Witness ==
    /\ joinReport.ran
    /\ \E c \in PdbFiles :
         /\ BothFound(c) /\ HasCopy(c)
         /\ RankIn(joinTables.sub[MotherFolder(c.dir)], IdOf(c).id)
            # RankIn(joinTables.master, IdOf(c).id)

\* C13: a run leaves every score table and every structure file as it was;
\* the directories it empties are named podium and lie below a pooled/aligned
\* path.
C13_InputsUntouched ==
    [][/\ candidates' = candidates
       /\ joinTables' = joinTables
       /\ \A d \in ClearedDirs(podium) :
            /\ Last(d) = "podium"
            /\ IsPooledAligned(SubSeq(d, 1, Len(d) - 1))]_vars

\* A run removed an old file from a podium directory and wrote a copy, with
\* structure files in the directory above it.
C13_Witness ==
    /\ joinRuns >= 1
    /\ \E d \in JoinDirs :
         /\ \E n \in DOMAIN podiumAtStart[d] : n \notin DOMAIN podium[d]
         /\ \E c \in candidates : c.dir = d /\ HasCopy(c)

C20_VariantKeyIsTopLevel ==
    joinReport.ran
    => \A c \in PdbFiles :
         MotherFolder(c.dir) # NoMother => MotherFolder(c.dir) = c.dir[1]

\* C15: without the master table (or its Design column) the run ends with a
\* non-zero exit status.
C15_NonZeroExitWithoutMaster ==
    (joinReport.ran /\ ~joinTables.masterOk) => joinReport.exit # 0

----------------------------------------------------------------------------
(* Properties of identifier extraction *)

\* C3: identifier normalization is idempotent: for any file name and key set,
\* the extractor applied to its own output returns that output unchanged
\* (both for extract_core_identifier_with_ag1_fallback and extract_identifier).
C3_Idempotent ==
    /\ Len(coreTrail) >= 2 => coreTrail[2] = coreTrail[1]
    /\ Len(idTrail) >= 2 => idTrail[2] = idTrail[1]

\* C9: a name that normalizes to something outside the key set, that holds
\* '_ag1_', and whose form with '_7_' for every '_ag1_' is in the key set,
\* resolves to that substituted key and to the rank of a master row carrying
\* it, not to Unresolved.
C9_SubstitutedMatch ==
    LET base == BaseName(fileName)
        alt == ReplaceAg1(base)
        keys == {SplitExt(designCol[i]) : i \in {k \in 1..Len(designCol) : NotNa(designCol[k])}}
    IN  (resolved.done /\ base \notin keys /\ Contains(base, Ag1) /\ alt \in keys) =>
            /\ resolved.core = alt
            /\ resolved.rank # NoRank
            /\ resolved.rank \in {i \in 1..Len(designCol) : SplitExt(designCol[i]) = alt}

C9_Witness ==
    /\ resolved.done
    /\ BaseName(fileName) = <<"x", "_", "ag", "1", "_", "s", "1", "_", "mpnn", "1">>
    /\ Len(fileName) > 12
    /\ designCol = << <<"s", "1", "_", "mpnn", "1">>, <<"x", "_", "7", "_", "s", "1", "_", "mpnn", "1">> >>
    /\ resolved.core = <<"x", "_", "7", "_", "s", "1", "_", "mpnn", "1">>
    /\ resolved.rank = 2

\* Two rank tables with the same keys and the same rank for every key.
SameKeysAndRanks(a, b) ==
    /\ Keys(a) = Keys(b)
    /\ \A k \in Keys(a) : DictGet(a, k) = DictGet(b, k)

\* C19: resolution depends on the file name and on the keys and ranks of the
\* master rankings only, not on the order the keys are stored in: every
\* master table that gives the same keys the same ranks resolves the file
\* name to the same core identifier and the same rank (of ranks that differ
\* from key to key, so to the same key).
C19_KeyOrderIrrelevant ==
    resolved.done =>
        \A col \in SeqsUpTo(DesignNames, MaxDesigns + 1) :
            SameKeysAndRanks(MasterRankings(col), MasterRankings(designCol))
            => /\ Resolve(fileName, MasterRankings(col)).core = resolved.core
               /\ Resolve(fileName, MasterRankings(col)).rank = resolved.rank

\* The rows of the master table whose design name is the key k.
RowsOfKey(k) ==
    {i \in 1..Len(designCol) : NotNa(designCol[i]) /\ SplitExt(designCol[i]) = k}

\* C27: when the design name a file resolves to stands in several rows of the
\* master table, the rank Duplicate Resolution uses for it is the lowest of
\* their positions.
C27_BestRowOfRepeatedDesign ==
    (resolved.done /\ RowsOfKey(resolved.core) # {})
    => \A i \in RowsOfKey(resolved.core) : resolved.rank <= i

\* master_rankings.get(identifier) of Rank Join for a file name (lines
\* 179-192 of 6.ranking_batch1.2.py) under the master table col.
JoinMasterRank(name, col) ==
    LET id == ExtractIdentifier(name)
    IN  IF id.found THEN DictGet(IdRankings(col), id.id) ELSE NoRank

\* C21: the global rank Rank Join writes into the name of a tagged file is
\* the global rank Duplicate Resolution resolves for the tagged file, for
\* every candidate file and master table.
C21_SameGlobalRank ==
    resolved.done =>
        \A orig \in PipelineFileNames, ind \in 1..(MaxDesigns + 1) :
            LET m == JoinMasterRank(orig, designCol)
            IN  (m # NoRank /\ fileName = TaggedName(ind, m, orig)) => resolved.rank = m

----------------------------------------------------------------------------
(* Specification of the Score Aggregator *)

\* The stats tree is drawn as a list of rows grouped by subfolder and file.
SlotIndex(e) == (IF e.sub = "A" THEN 0 ELSE 2) + (IF e.file = "f1" THEN 1 ELSE 2)

IsGrouped(raw) == \A i, j \in 1..Len(raw) : i < j => SlotIndex(raw[i]) <= SlotIndex(raw[j])

RowsOfSlot(raw, s, f) ==
    LET sel == SelectSeq(raw, LAMBDA e : e.sub = s /\ e.file = f)
    IN  [i \in 1..Len(sel) |-> [ptm |-> sel[i].ptm, pae |-> sel[i].pae]]

\* The stats tree before the aggregator runs; the tables of missing lack the
\* Design column.
AggStart(missing) ==
    /\ noDesign = missing
    /\ hasPTM \in BOOLEAN
    /\ hasPAE \in BOOLEAN
    /\ \E raw \in SeqsUpTo([sub : Subfolders, file : CsvFiles,
                            ptm : IF hasPTM THEN PTMValues ELSE {NoValue},
                            pae : IF hasPAE THEN PAEValues ELSE {NoValue}], MaxRows) :
         /\ IsGrouped(raw)
         /\ stats = [s \in Subfolders |-> [f \in CsvFiles |-> RowsOfSlot(raw, s, f)]]
    /\ subdirOrder = <<>>
    /\ mergedSub = [s \in Subfolders |-> NoFile]
    /\ masterCsv = NoFile
    /\ rankCol = NotRead
    /\ aggPc = "start"
    /\ ExtIdle
    /\ DupIdle
    /\ JoinIdle
    /\ NamesIdle
    /\ SelIdle

\* Every score table has the Design column.
AggInit == AggStart({})

AggNext == Aggregate \/ ReadRankings

SpecAgg == AggInit /\ [][AggNext]_vars

\* One score table of the tree was written without the Design column.
SchemaInit ==
    \E p \in Subfolders \X CsvFiles :
        /\ AggStart({p})
        /\ stats[p[1]][p[2]] # <<>>

SpecAggSchema == SchemaInit /\ [][AggNext]_vars

----------------------------------------------------------------------------
(* Properties of the Score Aggregator and of the rank tables read from it *)

TotalRows == Len(Flatten(AllDfs(SortedNames(Subfolders))))

RowsOfSub(sub) == Len(Flatten(SubdirDfs(sub)))

\* ranks numbers n rows so that every value of 1..n is the rank of exactly one.
IsDensePermutation(ranks, n) ==
    /\ DOMAIN ranks = 1..n
    /\ \A k \in 1..n : Cardinality({i \in 1..n : ranks[i] = k}) = 1

\* The rows of t are the n concatenated input rows, each exactly once.
HoldsEachInputRowOnce(t, n) ==
    /\ Len(t) = n
    /\ \A p \in 1..n : Cardinality({i \in 1..n : t[i].pos = p}) = 1

\* C1: in the master table and in every per-subfolder table, as read back with
\* ranks given by row position, the ranks are a dense permutation of 1..N, N
\* being the number of rows the score tables contributed: each input row is
\* there once, and each value of 1..N is the rank of exactly one row.
C1_DenseRanks ==
    rankCol.read =>
        /\ HoldsEachInputRowOnce(masterCsv.rows, TotalRows)
        /\ IsDensePermutation(rankCol.master, TotalRows)
        /\ \A s \in Subfolders :
              mergedSub[s].exists =>
                  /\ HoldsEachInputRowOnce(mergedSub[s].rows, RowsOfSub(s))
                  /\ IsDensePermutation(rankCol.sub[s], RowsOfSub(s))

C1_Witness ==
    /\ rankCol.read
    /\ Len(rankCol.master) = 3
    /\ \A s \in Subfolders : mergedSub[s].exists
    /\ \E i \in 1..3 : masterCsv.rows[i].pos # i

\* The three ordering rules on one rank table, rank being the row's place.
OrderedAndStable(t) ==
    \A i, j \in 1..Len(t) :
        /\ t[i].ptm > t[j].ptm => i < j
        /\ (t[i].ptm = t[j].ptm /\ t[i].pae < t[j].pae) => i < j
        /\ (t[i].ptm = t[j].ptm /\ t[i].pae = t[j].pae /\ t[i].pos < t[j].pos) => i < j

\* C2: with one or both metric columns present, every rank table (master and
\* per-subfolder) puts a higher primary metric first, then a lower secondary
\* metric, and keeps rows equal in both metrics in the order of the
\* concatenated input.
C2_OrderedAndStable ==
    (aggPc # "start" /\ (hasPTM \/ hasPAE)) =>
        /\ OrderedAndStable(masterCsv.rows)
        /\ \A s \in Subfolders : OrderedAndStable(mergedSub[s].rows)

\* All primary metric values of the stats tree differ.
DistinctPrimary ==
    LET rows == Flatten(AllDfs(SortedNames(Subfolders)))
    IN  \A i, j \in 1..Len(rows) : i # j => rows[i].ptm # rows[j].ptm

\* The table as to_csv(index=False) writes it: without the index.
Written(t) ==
    [i \in 1..Len(t) |-> [ptm |-> t[i].ptm, pae |-> t[i].pae, design |-> t[i].design,
                          source_subfolder |-> t[i].source_subfolder,
                          source_file |-> t[i].source_file]]

\* C10: when all rows have distinct primary metric values, the master table
\* holds the N input rows in strictly descending primary order (ranks 1..N),
\* and every enumeration order of the subfolders can only produce that table.
C10_OrderIndependent ==
    (aggPc # "start" /\ hasPTM /\ DistinctPrimary /\ TotalRows > 0) =>
        /\ masterCsv.exists
        /\ Len(masterCsv.rows) = TotalRows
        /\ \A i, j \in 1..TotalRows : i < j => masterCsv.rows[i].ptm > masterCsv.rows[j].ptm
        /\ \A ord \in Orders(Subfolders) :
              {Written(m.rows) : m \in MasterOutcomes(ord)} = {Written(masterCsv.rows)}

C10_Witness ==
    /\ aggPc # "start" /\ hasPTM /\ DistinctPrimary
    /\ TotalRows = 2
    /\ \A s \in Subfolders : RowsOfSub(s) = 1
    /\ subdirOrder = <<"B", "A">>
    /\ masterCsv.rows[1].source_subfolder = "A"
    /\ masterCsv.rows[1].pos = 2

RowsFrom(t, p) == {i \in 1..Len(t) : <<t[i].source_subfolder, t[i].source_file>> = p}

\* C16: a score table without the Design column is left out by the
\* aggregator: none of its rows is in the merged table of its subfolder or in
\* the master table, and every other score table has all its rows in both.
C16_TableWithoutDesignRejected ==
    aggPc # "start" =>
        \A s \in Subfolders, f \in CsvFiles :
            IF <<s, f>> \in noDesign
            THEN /\ RowsFrom(masterCsv.rows, <<s, f>>) = {}
                 /\ RowsFrom(mergedSub[s].rows, <<s, f>>) = {}
            ELSE /\ Cardinality(RowsFrom(masterCsv.rows, <<s, f>>)) = Len(stats[s][f])
                 /\ Cardinality(RowsFrom(mergedSub[s].rows, <<s, f>>)) = Len(stats[s][f])

----------------------------------------------------------------------------
(* The names of the merged tables: written by 4.merge_and_sort_...py, read   *)
(* back by get_file_rankings of 6.ranking_batch1.2.py (specification         *)
(* SpecNames).  A name is a sequence of parts.  "merged_" has the only "m"   *)
(* of the parts and no part starts with "s", so "merged_" and "_stats.csv"   *)
(* occur in a name exactly where they are parts of it, also after parts      *)
(* have been taken out.                                                      *)

NameParts == {"merged_", "_stats.csv", "all_final_design", "A", "B"}

SubfolderNames == SeqsUpTo(NameParts, MaxNameParts) \ {<<>>}

\* f"merged_{subdir}_stats.csv" (line 123 of 4.merge_and_sort_...py).
TableFile(n) == <<"merged_">> \o n \o <<"_stats.csv">>

\* "merged_all_final_design_stats.csv" (line 159 there, line 34 of
\* 6.ranking_batch1.2.py).
MasterFile == <<"merged_", "all_final_design", "_stats.csv">>

\* s.replace(part, ""): every occurrence is taken out.
Without(s, part) == SelectSeq(s, LAMBDA t : t # part)

\* filename.replace("merged_", "").replace("_stats.csv", "") (line 65 of
\* 6.ranking_batch1.2.py).
RecoveredName(file) == Without(Without(file, "merged_"), "_stats.csv")

\* What a merged file holds: the rows of one subfolder, or the master table.
RowsOfSubfolder(n) == [master |-> FALSE, sub |-> n]
RowsOfAll == [master |-> TRUE, sub |-> <<>>]

\* The aggregator writes the table of every subfolder (lines 123-124) and
\* then the master table (lines 159-160), which replaces a file of its name.
WriteMergedTables ==
    /\ namePc = "start"
    /\ written' = [f \in {TableFile(n) : n \in subNames} \cup {MasterFile} |->
                      IF f = MasterFile THEN RowsOfAll
                      ELSE RowsOfSubfolder(CHOOSE n \in subNames : TableFile(n) = f)]
    /\ namePc' = "written"
    /\ UNCHANGED <<subNames, recovered>>
    /\ UNCHANGED <<aggVars, extVars, dupVars, joinVars, selVars>>

\* glob merged_*_stats.csv without the master file (lines 57-61).
SubfolderTables == DOMAIN written \ {MasterFile}

\* Lines 59-82: the rows of every per-subfolder file go under the key
\* recovered from its file name; files with the same key share it.
ReadTableNames ==
    /\ namePc = "written"
    /\ recovered' = [k \in {RecoveredName(f) : f \in SubfolderTables} |->
                        {written[f].sub : f \in {g \in SubfolderTables : RecoveredName(g) = k}}]
    /\ namePc' = "read"
    /\ UNCHANGED <<subNames, written>>
    /\ UNCHANGED <<aggVars, extVars, dupVars, joinVars, selVars>>

\* The subsets of S of at most k elements.
RECURSIVE SubsetsUpTo(_, _)
SubsetsUpTo(S, k) ==
    IF k = 0 THEN {{}}
    ELSE LET smaller == SubsetsUpTo(S, k - 1)
         IN  smaller \cup {T \cup {x} : T \in smaller, x \in S}

NamesInit ==
    /\ subNames \in SubsetsUpTo(SubfolderNames, MaxSubfolders)
    /\ written = <<>>
    /\ recovered = <<>>
    /\ namePc = "start"
    /\ AggIdle
    /\ ExtIdle
    /\ DupIdle
    /\ JoinIdle
    /\ SelIdle

NamesNext == WriteMergedTables \/ ReadTableNames

SpecNames == NamesInit /\ [][NamesNext]_vars

\* C26: the subfolder name read back from the name of a per-subfolder table
\* is the name the table was written under, for every subfolder name, and the
\* table of no subfolder is the master file or replaced by it: after the
\* tables are read every subfolder has its own key, holding its rows only.
C26_SubfolderNameRoundTrip ==
    namePc = "read"
    => \A n \in subNames :
         /\ TableFile(n) # MasterFile
         /\ written[TableFile(n)] = RowsOfSubfolder(n)
         /\ RecoveredName(TableFile(n)) = n
         /\ n \in DOMAIN recovered
         /\ recovered[n] = {n}


----------------------------------------------------------------------------
(* Selection pooling: 7pool_selection.py.  The directory named "filtered"   *)
(* of the structure-file tree stands for a cutoff folder                     *)
(* filtered_pdbs_jc_<cutoff>A, the one name of this model that the pattern   *)
(* of find_podium_files accepts.                                             *)

\* The pattern of line 30 on the podium subdirectory of d:
\* ^(.+)/pooled/aligned/(filtered_pdbs_jc_.+A)/podium$ on a root below ".".
MatchesPodiumPattern(d) ==
    /\ Len(d) >= 3
    /\ d[Len(d) - 2] = "pooled"
    /\ d[Len(d) - 1] = "aligned"
    /\ d[Len(d)] = "filtered"

\* The destination of line 54 below ./selection: the varying part, then the
\* cutoff folder.
SelectionDir(d) == SubSeq(d, 1, Len(d) - 3) \o <<d[Len(d)]>>

\* os.makedirs(dest_dir, exist_ok=True) of line 87 makes the directory and
\* the directories above it.
Prefixes(dir) == {SubSeq(dir, 1, i) : i \in 1..Len(dir)}

\* find_podium_files (lines 21-43): the podium directories that match and
\* hold a .pdb file.
PodiumSources(pod) == {d \in DOMAIN pod : MatchesPodiumPattern(d) /\ DOMAIN pod[d] # {}}

\* Lines 90-98 for the files new of one directory that holds old: a file
\* whose name is there already is skipped, the others are copied.
CopySkippingExisting(old, new) ==
    [n \in DOMAIN old \cup DOMAIN new |-> IF n \in DOMAIN old THEN old[n] ELSE new[n]]

\* execute_copy_operations (lines 79-108) over the files of
\* find_podium_files: every podium file goes to the directory of its variant
\* and cutoff; two podium directories never share a destination.
SelectionAfterPooling(sel, pod) ==
    [p \in DOMAIN sel \cup UNION {Prefixes(SelectionDir(d)) : d \in PodiumSources(pod)} |->
        CopySkippingExisting(
            IF p \in DOMAIN sel THEN sel[p] ELSE <<>>,
            IF \E d \in PodiumSources(pod) : SelectionDir(d) = p
            THEN pod[CHOOSE d \in PodiumSources(pod) : SelectionDir(d) = p]
            ELSE <<>>)]

\* The tables the Score Aggregator writes from the rows of the subfolders
\* (lines 123 and 159 of 4.merge_and_sort_...py).
TablesOf(rows) ==
    [masterOk |-> TRUE,
     master |-> DesignsOf(rows),
     source |-> SourcesOf(rows),
     sub |-> [v \in Variants |-> DesignsOf(SelectSeq(rows, LAMBDA r : r[2] = v))]]

AggregatedTables == {TablesOf(rows) : rows \in SeqsUpTo(JoinDesigns \X Variants, MaxDesigns)}

\* The Score Aggregator runs again over other score tables.
ChangeScoreTables ==
    /\ pipePc = "tables"
    /\ joinRuns < MaxRuns
    /\ joinTables' \in AggregatedTables \ {joinTables}
    /\ pipePc' = "join"
    /\ UNCHANGED <<candidates, podium, podiumAtStart, joinRuns, joinReport, selection, poolRuns, treeBefore>>
    /\ UNCHANGED <<aggVars, extVars, dupVars, nameVars>>

\* 6.ranking_batch1.2.py as the pipeline's second script.
PipeRankJoin ==
    /\ pipePc = "join"
    /\ CopyFilesWithRankings
    /\ pipePc' = "pool"
    /\ UNCHANGED <<selection, poolRuns, treeBefore>>

\* 7pool_selection.py main (lines 110-141) with the copy confirmed.
PoolSelection ==
    /\ pipePc = "pool"
    /\ selection' = SelectionAfterPooling(selection, podium)
    /\ pipePc' = "tables"
    /\ UNCHANGED <<poolRuns, treeBefore>>
    /\ UNCHANGED <<aggVars, extVars, dupVars, joinVars, nameVars>>

\* The pipeline starts on aggregated tables, empty podium directories and no
\* selection directory.
PipeInit ==
    /\ joinTables \in AggregatedTables
    /\ candidates \in {S \in SUBSET JoinFiles : Cardinality(S) <= MaxCandidates}
    /\ podium = [d \in JoinDirs |-> <<>>]
    /\ podiumAtStart = podium
    /\ joinRuns = 0
    /\ joinReport = NoReport
    /\ selection = <<>>
    /\ pipePc = "join"
    /\ poolRuns = 0
    /\ treeBefore = <<>>
    /\ AggIdle
    /\ ExtIdle
    /\ DupIdle
    /\ NamesIdle

PipeNext == PipeRankJoin \/ PoolSelection \/ ChangeScoreTables

SpecPipe == PipeInit /\ [][PipeNext]_vars

\* The tagged copies of the structure file c in its directory of the
\* selection tree.
SelectionCopies(c) ==
    IF SelectionDir(c.dir) \in DOMAIN selection
    THEN {n \in DOMAIN selection[SelectionDir(c.dir)] : IsCopyOf(n, c)}
    ELSE {}

\* C29: whenever a run of the whole pipeline has ended (aggregation, Rank
\* Join, selection pooling), the selection tree holds at most one tagged copy
\* of each structure file, and that copy carries the ranks of the podium
\* directory as it is now.
C29_OneCurrentCopyPerCandidate ==
    (pipePc = "tables" /\ joinRuns >= 1)
    => \A c \in candidates :
         MatchesPodiumPattern(c.dir)
         => /\ Cardinality(SelectionCopies(c)) <= 1
            /\ SelectionCopies(c) \subseteq DOMAIN podium[c.dir]


----------------------------------------------------------------------------
(* Pooling of same-named cutoff folders: 8pooling_same_cutoffs.py.          *)
(* "filtered" stands for the cutoff folder filtered_pdbs_jc_5.0A as above    *)
(* and "filtered8" for filtered_pdbs_jc_8.0A; "filtered50A" and             *)
(* "filtered80A" stand for the two names without their dots.                 *)

Cutoffs == {"filtered", "filtered8"}

\* part.replace(".", "") of line 59: variant names hold no dot.
WithoutDots(part) ==
    IF part = "filtered" THEN "filtered50A"
    ELSE IF part = "filtered8" THEN "filtered80A"
    ELSE part

\* safe_path of lines 58-59 for the directory dir below ./selection: its
\* parts joined by "_", the dots taken out.
RECURSIVE SafePath(_)
SafePath(dir) ==
    IF Len(dir) = 1 THEN <<WithoutDots(dir[1])>>
    ELSE <<WithoutDots(dir[1]), "_">> \o SafePath(Tail(dir))

\* new_filename of lines 60-61.
RenamedFor(filename, dir) ==
    SplitExt(filename) \o <<"_">> \o SafePath(dir) \o From(filename, Len(SplitExt(filename)) + 1)

\* subfolder_paths[c] of find_subfolders_with_same_name (lines 9-23) for a
\* tree of variant folders and pooled folders: os.walk names the directories
\* of ./selection first, then those of each variant folder, the variant
\* folders in the order walk of os.listdir.
PathsNamed(sel, c, walk) ==
    (IF <<c>> \in DOMAIN sel THEN <<<<c>>>> ELSE <<>>)
    \o SelectSeq([i \in 1..Len(walk) |-> <<walk[i], c>>], LAMBDA p : p \in DOMAIN sel)

\* The orders in which glob can list the files S of one folder.
RECURSIVE Listings(_)
Listings(S) ==
    IF S = {} THEN {<<>>}
    ELSE UNION {{<<x>> \o l : l \in Listings(S \ {x})} : x \in S}

\* pdb_files of lines 41-46: the files of the folders in the order of paths,
\* those of one folder in any order.
RECURSIVE PdbFilesOf(_, _)
PdbFilesOf(sel, paths) ==
    IF paths = <<>> THEN {<<>>}
    ELSE {[i \in 1..Len(l) |-> [dir |-> Head(paths), name |-> l[i]]] \o rest :
             l \in Listings(DOMAIN sel[Head(paths)]), rest \in PdbFilesOf(sel, Tail(paths))}

\* Lines 53-64 for one file: copied under its name, or under the name with
\* the source folder added when the pooled folder holds that name; copy2
\* replaces a file of the destination's name.
PoolOne(sel, c, src) ==
    LET dest == IF src.name \in DOMAIN sel[<<c>>]
                THEN RenamedFor(src.name, src.dir) ELSE src.name
    IN  [sel EXCEPT ![<<c>>] = (dest :> sel[src.dir][src.name])
                                @@ [n \in DOMAIN sel[<<c>>] \ {dest} |-> sel[<<c>>][n]]]

\* The loop of line 53.
RECURSIVE PoolAll(_, _, _)
PoolAll(sel, c, srcs) ==
    IF srcs = <<>> THEN sel
    ELSE Once({PoolAll(next, c, Tail(srcs)) : next \in {PoolOne(sel, c, Head(srcs))}})

\* os.makedirs(pooled_folder, exist_ok=True) of line 50.
WithPooledFolder(sel, c) ==
    [p \in DOMAIN sel \cup {<<c>>} |-> IF p \in DOMAIN sel THEN sel[p] ELSE <<>>]

\* Lines 38-65 for the folder name c: the trees the loop can leave.
PoolCutoff(sel, c, walk) ==
    LET paths == PathsNamed(sel, c, walk)
    IN  IF Len(paths) <= 1 THEN {sel}
        ELSE {IF srcs = <<>> THEN sel ELSE PoolAll(WithPooledFolder(sel, c), c, srcs) :
                 srcs \in PdbFilesOf(sel, paths)}

\* pool_pdb_files (lines 25-74): every folder name found more than once is
\* pooled.  A variant folder's name is found once; the folder names are
\* pooled into different folders, so their order does not show.
PoolPdbFiles(sel, walk) ==
    UNION {PoolCutoff(t, "filtered8", walk) : t \in PoolCutoff(sel, "filtered", walk)}

PoolSameCutoffs ==
    /\ pipePc = "pooling"
    /\ poolRuns < MaxRuns
    /\ \E walk \in Listings(Variants) : selection' \in PoolPdbFiles(selection, walk)
    /\ treeBefore' = selection
    /\ poolRuns' = poolRuns + 1
    /\ UNCHANGED pipePc
    /\ UNCHANGED <<aggVars, extVars, dupVars, joinVars, nameVars>>

\* The file names of the variants' cutoff folders: podium names.
PoolNames ==
    { TaggedName(1, 1, <<"x", "_", "7", "_", "s", "1", "_", "mpnn", "1">> \o Pdb),
      TaggedName(2, 2, <<"y", "_", "s", "2", "_", "mpnn", "1">> \o Pdb) }

\* Stands for a folder that is not there: no set of file names.
NoFolder == {<<>>}

\* The tree 7pool_selection.py leaves: a folder of a variant and a cutoff,
\* where there is one, holds tagged files, if any, each with content of its
\* own.
TreeOf(folders) ==
    [p \in {<<v>> : v \in {u \in Variants : \E c \in Cutoffs : folders[<<u, c>>] # NoFolder}}
           \cup {q \in Variants \X Cutoffs : folders[q] # NoFolder} |->
        IF Len(p) = 1 THEN <<>>
        ELSE [n \in folders[p] |-> [from |-> p, name |-> n]]]

PoolInit ==
    /\ \E folders \in [Variants \X Cutoffs -> (SUBSET PoolNames) \cup {NoFolder}] :
         selection = TreeOf(folders)
    /\ treeBefore = selection
    /\ pipePc = "pooling"
    /\ poolRuns = 0
    /\ AggIdle
    /\ ExtIdle
    /\ DupIdle
    /\ JoinIdle
    /\ NamesIdle

PoolNext == PoolSameCutoffs

SpecPool == PoolInit /\ [][PoolNext]_vars

\* The files of the pooled folder of c that hold what the file n of the
\* folder of variant v and cutoff c holds.
PooledCopies(v, c, n) ==
    {k \in DOMAIN selection[<<c>>] : selection[<<c>>][k] = selection[<<v, c>>][n]}

\* C30: a second run of the pooling over the tree the first one left adds no
\* file to a pooled folder and changes none, and after any number of runs a
\* pooled folder holds exactly one copy of each file of the variants' folders
\* of its cutoff.
C30_PoolingIdempotent ==
    /\ poolRuns >= 2 => selection = treeBefore
    /\ poolRuns >= 1
       => \A c \in Cutoffs :
            <<c>> \in DOMAIN selection
            => \A v \in Variants :
                 <<v, c>> \in DOMAIN selection
                 => \A n \in DOMAIN selection[<<v, c>>] :
                      Cardinality(PooledCopies(v, c, n)) = 1

====
